---- MODULE Spec2Model ----
(***************************************************************************)
(* View-state engine of src/src/Compoents/DataGridComponent.jsx: the       *)
(* DataGrid controller (sort, filters, selectedRows), the memoised         *)
(* filter -> sort pipeline (sortedFilteredData) and the slot components.   *)
(***************************************************************************)
EXTENDS Integers, Sequences, FiniteSets, TLC

(***************************************************************************)
(* JavaScript values.  A field value is a number, a string or undefined    *)
(* (a property the row object does not have).  Strings are one character   *)
(* long and carried by their code unit, which is how < and > order them.   *)
(***************************************************************************)
Num(n) == [t |-> "number", v |-> n]
Str(c) == [t |-> "string", v |-> c]
Undef == [t |-> "undefined", v |-> 0]

\* Marker for an absent property of the sort object / an absent prop.
Undefined == "undefined"
\* The null predicate of setFilter(field, null).
Null == [fn |-> "null", field |-> "", arg |-> Undef]

\* JS truthiness of a string-or-undefined (if (sort.field) ...).
Truthy(s) == s # Undefined /\ s # ""

\* a > b and a < b of JS on these values: two numbers or two strings are
\* ordered; undefined becomes NaN and a one-letter string against a number
\* becomes NaN, and every comparison with NaN is false.
Gt(a, b) == a.t = b.t /\ a.t # "undefined" /\ a.v > b.v
Lt(a, b) == a.t = b.t /\ a.t # "undefined" /\ a.v < b.v

(***************************************************************************)
(* The rows.  A row is an object reference (its index in Heap); two rows   *)
(* with the same contents are still different rows.                        *)
(***************************************************************************)
Heap ==
  << [name |-> Str(98), age |-> Num(3)],
     [name |-> Str(97)],
     [name |-> Str(98), age |-> Num(2)],
     [name |-> Str(97), age |-> Num(1)],
     [name |-> Str(99), age |-> Num(2)] >>

Pool == DOMAIN Heap
Fields == {"name", "age"}

\* row[field]
Get(row, field) ==
  IF field \in DOMAIN Heap[row] THEN Heap[row][field] ELSE Undef

(***************************************************************************)
(* Consumer-supplied predicates (the functions a Column's filter factory   *)
(* returns).  They are pure and total on the rows of Heap.                 *)
(*   startsWith: row => row[field].startsWith(arg)    (arg one letter)     *)
(*   atLeast:    row => row[field] >= arg                                  *)
(***************************************************************************)
StartsWith(field, c) == [fn |-> "startsWith", field |-> field, arg |-> Str(c)]
AtLeast(field, n) == [fn |-> "atLeast", field |-> field, arg |-> Num(n)]

\* What the filter factory of each column can hand to onFilter.
FilterFns(field) ==
  IF field = "name" THEN {StartsWith("name", 98)} ELSE {AtLeast("age", 3)}

\* filterFn(row), as Array.prototype.filter reads it (truthy or not).
Holds(filterFn, row) ==
  LET x == Get(row, filterFn.field) IN
    IF filterFn.fn = "startsWith" THEN x = filterFn.arg
    ELSE x.t = "number" /\ x.v >= filterFn.arg.v

(***************************************************************************)
(* The filters object.  A JS object keeps its string keys in insertion     *)
(* order, which is the order Object.entries walks them in, so the object   *)
(* is the sequence of its [field, fn] entries.                             *)
(***************************************************************************)
HasKey(filters, field) == \E i \in DOMAIN filters : filters[i].field = field

\* Variant: the other fields' entries are not carried over.
NewFilters_NoSpread(filters, field, filterFn) ==
  <<[field |-> field, fn |-> filterFn]>>

\* Variant: a null predicate deletes the field's key.
NewFilters_DeleteNull(filters, field, filterFn) ==
  IF filterFn = Null
  THEN SelectSeq(filters, LAMBDA entry : entry.field # field)
  ELSE IF HasKey(filters, field)
  THEN [i \in DOMAIN filters |->
          IF filters[i].field = field
          THEN [field |-> field, fn |-> filterFn] ELSE filters[i]]
  ELSE Append(filters, [field |-> field, fn |-> filterFn])

\* { ...filters, [field]: filterFn }
NewFilters(filters, field, filterFn) ==
  IF HasKey(filters, field)
  THEN [i \in DOMAIN filters |->
          IF filters[i].field = field
          THEN [field |-> field, fn |-> filterFn] ELSE filters[i]]
  ELSE Append(filters, [field |-> field, fn |-> filterFn])

(***************************************************************************)
(* Arrays are objects.  A memory is the sequence of the arrays allocated   *)
(* so far and an array's reference is its index in it.  The variable       *)
(* filteredData of the memo body is a reference: in m, m.mem is the memory *)
(* and m.ref the array that filteredData names.                            *)
(***************************************************************************)
\* The reference of the data prop's array: the memo body starts in the
\* memory that holds the caller's array only.
CallerRef == 1

\* The elements of the array filteredData names.
Deref(m) == m.mem[m.ref]

\* A new array with these elements, and filteredData naming it.
Alloc(mem, elements) == [mem |-> Append(mem, elements), ref |-> Len(mem) + 1]

\* Variant: let filteredData = data, the same array and no copy.
Spread_Alias(mem, ref) == [mem |-> mem, ref |-> ref]

\* let filteredData = [...data]: a new array with the elements of data.
Spread(mem, ref) == Alloc(mem, mem[ref])

\* Variant: a null entry is not skipped, and no row satisfies it.
FilterStep_NoNullCheck(m, filterFn) ==
  Alloc(m.mem, SelectSeq(Deref(m), LAMBDA row : filterFn # Null /\ Holds(filterFn, row)))

\* One step of the forEach:
\*   if (filterFn) filteredData = filteredData.filter(filterFn)
\* filter() returns a new array; with no predicate filteredData names the
\* array it named.
FilterStep(m, filterFn) ==
  IF filterFn # Null
  THEN Alloc(m.mem, SelectSeq(Deref(m), LAMBDA row : Holds(filterFn, row)))
  ELSE m

\* Variant: every entry filters the original array, so only the last counts.
ApplyFilters_LastOnly(m, filters) ==
  IF filters = << >> THEN m
  ELSE FilterStep(m, filters[Len(filters)].fn)

RECURSIVE ApplyFilters(_, _)
\* Object.entries(filters).forEach(...) over filteredData
ApplyFilters(m, filters) ==
  IF filters = << >> THEN m
  ELSE ApplyFilters(FilterStep(m, Head(filters).fn), Tail(filters))

(***************************************************************************)
(* The comparator handed to Array.prototype.sort.                          *)
(***************************************************************************)
\* Variant: the direction is not applied.
Compare_NoDirection(a, b, sort) ==
  IF Gt(Get(a, sort.field), Get(b, sort.field)) THEN 1
  ELSE IF Lt(Get(a, sort.field), Get(b, sort.field)) THEN -1
  ELSE 0

\* Variant: only 'desc' sorts descending.
Compare_DescOnly(a, b, sort) ==
  LET aValue == Get(a, sort.field)
      bValue == Get(b, sort.field)
      direction == IF sort.direction = "desc" THEN -1 ELSE 1
  IN IF Gt(aValue, bValue) THEN direction
     ELSE IF Lt(aValue, bValue) THEN -direction
     ELSE 0

Compare(a, b, sort) ==
  LET aValue == Get(a, sort.field)
      bValue == Get(b, sort.field)
      direction == IF sort.direction = "asc" THEN 1 ELSE -1
  IN IF Gt(aValue, bValue) THEN direction
     ELSE IF Lt(aValue, bValue) THEN -direction
     ELSE 0

(***************************************************************************)
(* Array.prototype.sort(comparefn).  The order it returns is that of the   *)
(* algorithm of the engine that runs the component.  Two engines are       *)
(* modelled, the two generations of V8, for arrays of fewer than 64        *)
(* elements (Sortable):                                                    *)
(*   "timsort"    V8 from 7.0: the first run is counted (and reversed when *)
(*                strictly descending), then the remaining elements are    *)
(*                placed by binary insertion.  From 64 elements on the     *)
(*                engine merges several runs, which is not modelled.       *)
(*   "insertion"  V8 before 7.0: straight insertion, each element sinking  *)
(*                past the elements that compare greater, for a range of   *)
(*                at most 10 elements; a longer range is split around a    *)
(*                median-of-three pivot (quicksort) into ranges sorted the *)
(*                same way.                                                *)
(* With a consistent comparator "timsort" returns the stable order, and    *)
(* "insertion" does for at most 10 elements; its quicksort is not stable.  *)
(* The comparator of the component is not consistent when a value is       *)
(* undefined (it compares 0 against everything).                           *)
(* Indices are 0-based as in the engines; arr[i + 1] is element i.         *)
(***************************************************************************)
Engines == {"timsort", "insertion"}

\* The arrays the two algorithms below are the engines' for.
Sortable(arr) == Len(arr) < 64

RECURSIVE RunEnd(_, _, _, _)
\* The run length: elements idx.. are added while the order keeps.
RunEnd(arr, sort, isDescending, idx) ==
  IF idx >= Len(arr) THEN Len(arr)
  ELSE LET order == Compare(arr[idx + 1], arr[idx], sort) IN
       IF (isDescending /\ order >= 0) \/ (~isDescending /\ order < 0)
       THEN idx
       ELSE RunEnd(arr, sort, isDescending, idx + 1)

Reverse(s) == [i \in 1..Len(s) |-> s[Len(s) + 1 - i]]

\* CountAndMakeRun(0, length): the array with its first run made ascending,
\* and the run's length.
CountAndMakeRun(arr, sort) ==
  IF Len(arr) < 2 THEN [arr |-> arr, run |-> Len(arr)]
  ELSE LET isDescending == Compare(arr[2], arr[1], sort) < 0
           run == RunEnd(arr, sort, isDescending, 2)
       IN [arr |-> IF isDescending
                   THEN Reverse(SubSeq(arr, 1, run)) \o SubSeq(arr, run + 1, Len(arr))
                   ELSE arr,
           run |-> run]

RECURSIVE BinarySearch(_, _, _, _, _)
\* while (left < right) { mid = left + ((right - left) >> 1); ... }
BinarySearch(arr, sort, pivot, left, right) ==
  IF left >= right THEN left
  ELSE LET mid == left + ((right - left) \div 2)
           order == Compare(pivot, arr[mid + 1], sort)
       IN IF order < 0 THEN BinarySearch(arr, sort, pivot, left, mid)
          ELSE BinarySearch(arr, sort, pivot, mid + 1, right)

RECURSIVE BinaryInsertionSort(_, _, _)
\* Elements start.. are inserted, one after the other, into arr[0..start).
BinaryInsertionSort(arr, sort, start) ==
  IF start >= Len(arr) THEN arr
  ELSE LET pivot == arr[start + 1]
           left == BinarySearch(arr, sort, pivot, 0, start)
           placed == SubSeq(arr, 1, left) \o <<pivot>> \o SubSeq(arr, left + 1, start)
                       \o SubSeq(arr, start + 2, Len(arr))
       IN BinaryInsertionSort(placed, sort, start + 1)

RECURSIVE Sink(_, _, _, _, _)
\* for (j = i - 1; j >= from; j--) { if (comparefn(a[j], element) > 0)
\* a[j + 1] = a[j]; else break; }: the index element is stored at.
Sink(arr, sort, element, from, j) ==
  IF j < from THEN from
  ELSE IF Compare(arr[j + 1], element, sort) > 0
  THEN Sink(arr, sort, element, from, j - 1)
  ELSE j + 1

RECURSIVE InsertionSort(_, _, _, _, _)
\* InsertionSort(a, from, to), at for (i = from + 1; i < to; i++): element
\* i sinks into arr[from..i).
InsertionSort(arr, sort, from, to, i) ==
  IF i >= to THEN arr
  ELSE LET element == arr[i + 1]
           at == Sink(arr, sort, element, from, i - 1)
           placed == SubSeq(arr, 1, at) \o <<element>> \o SubSeq(arr, at + 1, i)
                       \o SubSeq(arr, i + 2, Len(arr))
       IN InsertionSort(placed, sort, from, to, i + 1)

\* a[i] = v
Store(arr, i, v) == [arr EXCEPT ![i + 1] = v]

\* The median of first, last and middle element: v0 <= v1 <= v2, v1 the
\* pivot.
MedianOfThree(first, last, middle, sort) ==
  LET swapped == Compare(first, last, sort) > 0
      v0 == IF swapped THEN last ELSE first
      v1 == IF swapped THEN first ELSE last
  IN IF Compare(v0, middle, sort) >= 0
     THEN [v0 |-> middle, v1 |-> v0, v2 |-> v1]
     ELSE IF Compare(v1, middle, sort) > 0
     THEN [v0 |-> v0, v1 |-> middle, v2 |-> v1]
     ELSE [v0 |-> v0, v1 |-> v1, v2 |-> middle]

RECURSIVE ScanDown(_, _, _, _, _)
\* do { high_start--; if (high_start == i) break partition;
\*      order = comparefn(a[high_start], pivot); } while (order > 0);
\* the new high_start, which is i when the partition is over.
ScanDown(arr, sort, pivot, high, i) ==
  IF high - 1 = i THEN i
  ELSE IF Compare(arr[high], pivot, sort) > 0
  THEN ScanDown(arr, sort, pivot, high - 1, i)
  ELSE high - 1

RECURSIVE Partition(_, _, _, _, _, _)
\* partition: for (i = low_end + 1; i < high_start; i++): the elements
\* below low_end are lower than the pivot, those from high_start greater.
Partition(arr, sort, pivot, low, high, i) ==
  IF i >= high THEN [arr |-> arr, low |-> low, high |-> high]
  ELSE LET element == arr[i + 1]
           order == Compare(element, pivot, sort)
       IN IF order < 0
          THEN Partition(Store(Store(arr, i, arr[low + 1]), low, element),
                         sort, pivot, low + 1, high, i + 1)
          ELSE IF order > 0
          THEN LET top == ScanDown(arr, sort, pivot, high, i)
                   swapped == Store(Store(arr, i, arr[top + 1]), top, element)
               IN IF top = i THEN [arr |-> arr, low |-> low, high |-> i]
                  ELSE IF Compare(arr[top + 1], pivot, sort) < 0
                  THEN Partition(Store(Store(swapped, i, swapped[low + 1]),
                                       low, swapped[i + 1]),
                                 sort, pivot, low + 1, top, i + 1)
                  ELSE Partition(swapped, sort, pivot, low, top, i + 1)
          ELSE Partition(arr, sort, pivot, low, high, i + 1)

RECURSIVE QuickSort(_, _, _, _)
\* QuickSort(a, from, to): insertion sort for at most 10 elements, else the
\* range is split around the pivot and both parts are sorted.
QuickSort(arr, sort, from, to) ==
  IF to - from <= 10 THEN InsertionSort(arr, sort, from, to, from + 1)
  ELSE LET third == from + ((to - from) \div 2)
           v == MedianOfThree(arr[from + 1], arr[to], arr[third + 1], sort)
           ends == Store(Store(arr, from, v.v0), to - 1, v.v2)
           start == Store(Store(ends, third, ends[from + 2]), from + 1, v.v1)
           part == Partition(start, sort, v.v1, from + 1, to - 1, from + 2)
       IN QuickSort(QuickSort(part.arr, sort, part.high, to), sort, from, part.low)

\* filteredData.sort((a, b) => ...), run by the engine eng.
ArraySort(eng, arr, sort) ==
  IF eng = "insertion" THEN QuickSort(arr, sort, 0, Len(arr))
  ELSE LET made == CountAndMakeRun(arr, sort)
       IN BinaryInsertionSort(made.arr, sort, made.run)

\* The comparator is not a consistent comparison on these rows: a row
\* compares 0 against two rows that are ordered.
Inconsistent(rows, field) ==
  LET Tie(i, j) == /\ ~Gt(Get(rows[i], field), Get(rows[j], field))
                   /\ ~Lt(Get(rows[i], field), Get(rows[j], field))
  IN \E i, j, k \in DOMAIN rows : Tie(i, j) /\ Tie(j, k) /\ ~Tie(i, k)

\* The engines to tell apart for these data arrays: on an array of at most
\* 10 rows that the comparator is consistent on, both return the stable
\* order, and one stands for both.
EnginesFor(dataInputs) ==
  IF \E data \in dataInputs :
       \/ Len(data) > 10
       \/ \E field \in Fields : Inconsistent(data, field)
  THEN Engines ELSE {"timsort"}

(***************************************************************************)
(* sortedFilteredData: the useMemo body.                                   *)
(***************************************************************************)
\* Variant: descending is the ascending order reversed.
SortInPlace_Reversed(eng, m, sort) ==
  [m EXCEPT !.mem[m.ref] =
     IF sort.direction = "asc" THEN ArraySort(eng, @, sort)
     ELSE Reverse(ArraySort(eng, @, [sort EXCEPT !.direction = "asc"]))]

\* filteredData.sort(cmp): reorders the array filteredData names, in
\* place.
SortInPlace(eng, m, sort) ==
  [m EXCEPT !.mem[m.ref] = ArraySort(eng, @, sort)]

\* The memo body, run on the caller's array: the memory it leaves, and in
\* it the array it returns.
MemoBody(eng, data, sort, filters) ==
  LET filteredData == ApplyFilters(Spread(<<data>>, CallerRef), filters)
  IN IF Truthy(sort.field) THEN SortInPlace(eng, filteredData, sort)
     ELSE filteredData

\* The array the memo body returns.
sortedFilteredData(eng, data, sort, filters) ==
  Deref(MemoBody(eng, data, sort, filters))

(***************************************************************************)
(* Inputs: the props of <DataGrid>.                                        *)
(***************************************************************************)
\* Longest data array of the exhaustive inputs.
MaxRows == 2

\* Every array of at most MaxRows references to the first three rows (the
\* same row may occur twice); one longer array, in which some age values
\* are missing; and one of more than 10 rows, every value present.
SmallRows == {1, 2, 3}
DataInputs == UNION {[1..k -> SmallRows] : k \in 0..MaxRows}
SparseData == <<1, 2, 1, 2, 3, 4, 5>>
LongData == <<4, 3, 5, 1, 1, 1, 4, 1, 3, 1, 1>>

\* {} : the sort object with no field and no direction.
EmptySort == [field |-> Undefined, direction |-> Undefined]

\* The defaultSort prop: << >> when not given, else <<the object>>.
DefaultSortInputs ==
  { << >>,
    <<[field |-> "name", direction |-> "asc"]>>,
    <<[field |-> "age", direction |-> Undefined]>> }

\* Directions a defaultSort can carry besides 'asc' and 'desc': none, or
\* any other string.
OtherDirections == {Undefined, "", "up"}

Hooks == {"onSort", "onFilter", "onRowSelect"}
HookInputs == {{}, Hooks}

(***************************************************************************)
(* State.                                                                  *)
(*   props         data (the elements the caller's array holds),           *)
(*                 defaultSort and the configured hooks                    *)
(*   sort, filters, selectedRows   the three useState cells                *)
(*   ctx           the context value of the last render: the memoised      *)
(*                 sortedFilteredData, whether that render ran the memo    *)
(*                 body again (recomputed) and the state the handlers of   *)
(*                 that render closed over                                 *)
(*   calls         the hook invocations made by the last handler call      *)
(*   event         the last handler call; event.follows says that the call *)
(*                 before it was the same operation on the same field or   *)
(*                 row (a setFilter: with a predicate, not null), and      *)
(*                 event.first is the call made before it in the same      *)
(*                 event dispatch, if there was one, and event.col the     *)
(*                 column whose label or input the event came from         *)
(*   oddToggled    the rows toggled an odd number of times since mount     *)
(*   slotOut       the outcome of the last stand-alone slot render         *)
(*   engine        the engine that runs the component                      *)
(***************************************************************************)
VARIABLES props, sort, filters, selectedRows, ctx, calls, event,
          oddToggled, slotOut, engine

vars == <<props, sort, filters, selectedRows, ctx, calls, event,
          oddToggled, slotOut, engine>>

\* A handler call: setSort(field), setFilter(field, fn) or toggle(row).
Call(op, field, fn, row) == [op |-> op, field |-> field, fn |-> fn, row |-> row]
NoCall == Call("none", "", Null, 0)

\* The props of a <DataGrid.Column>: filter says that a factory was given.
ColumnInputs == [field : Fields, sortable : BOOLEAN, filter : BOOLEAN]
NoColumn == [field |-> "", sortable |-> FALSE, filter |-> FALSE]

Ev(op, field, fn, row) ==
  [op |-> op, field |-> field, fn |-> fn, row |-> row,
   follows |-> /\ event.op = op /\ event.field = field /\ event.row = row
               /\ (op = "setFilter" => event.fn # Null),
   first |-> NoCall, col |-> NoColumn]
Mount ==
  [op |-> "mount", field |-> "", fn |-> Null, row |-> 0, follows |-> FALSE,
   first |-> NoCall, col |-> NoColumn]
NoSlot ==
  [slot |-> "", provided |-> FALSE, row |-> 0, children |-> FALSE, outcome |-> ""]

\* Variant: defaultSort is not read.
InitialSort_Ignored(defaultSort) == EmptySort

\* useState(defaultSort || {})
InitialSort(defaultSort) ==
  IF defaultSort = << >> THEN EmptySort ELSE defaultSort[1]

\* Variant: the selection is one of the memo's dependencies.
DepsChanged_WithSelection(ops) == ops # {}

\* useMemo(..., [data, sort, filters]): a dependency changes identity on
\* the first render, when the parent passes another array as data, and
\* whenever setSort or setFilter was called (each installs a new object).
\* ops: what happened since the last render.
DepsChanged(ops) == ops \cap {"mount", "data", "setSort", "setFilter"} # {}

\* The memo of one render: << >> when no dependency changed and it hands
\* the old value back, else <<m>>, m the memory the body leaves and the
\* array it returns.
Memo(ops, data, s, f) ==
  IF DepsChanged(ops) THEN <<MemoBody(engine, data, s, f)>> ELSE << >>

\* One render of DataGrid: the value handed to DataGridContext.Provider.
Render(memo, s, f, sel) ==
  [data |-> IF memo = << >> THEN ctx.data ELSE Deref(memo[1]),
   recomputed |-> memo # << >>,
   sort |-> s, filters |-> f, selectedRows |-> sel]

\* The caller's array after that render: what the memory holds at the
\* caller's reference once the memo body ran, and the array as it was
\* when the body did not run.
CallerData(memo, data) ==
  IF memo = << >> THEN data ELSE memo[1].mem[CallerRef]

\* The controller renders again with these props and this state; the memo
\* body runs at most once in a render.
Rerender(newProps, ops, s, f, sel) ==
  \E memo \in {Memo(ops, newProps.data, s, f)} :
    /\ ctx' = Render(memo, s, f, sel)
    /\ props' = [newProps EXCEPT !.data = CallerData(memo, newProps.data)]

\* The props: every data array with every defaultSort when the hooks are
\* configured, and with no defaultSort when they are not.
PropsInputs(dataInputs) ==
  [data : dataInputs, defaultSort : DefaultSortInputs, hooks : {Hooks}]
    \cup [data : dataInputs, defaultSort : {<< >>}, hooks : HookInputs]

\* The state after the first render, for a data prop drawn from dataInputs;
\* laterInputs: the arrays the parent can pass afterwards.
Mounted(dataInputs, laterInputs) ==
  /\ props \in PropsInputs(dataInputs)
  /\ Sortable(props.data)
  /\ engine \in EnginesFor({props.data} \cup laterInputs)
  /\ sort = InitialSort(props.defaultSort)
  /\ filters = << >>
  /\ selectedRows = << >>
  /\ ctx = Render(Memo({"mount"}, props.data, sort, filters), sort, filters, selectedRows)
  /\ calls = << >>
  /\ event = Mount
  /\ oddToggled = {}
  /\ slotOut = NoSlot

Init == Mounted(DataInputs, {})

\* if (onX) onX(arg)
Notify(hook, arg) ==
  IF hook \in props.hooks THEN <<[hook |-> hook, arg |-> arg]>> ELSE << >>

(***************************************************************************)
(* The handlers.  Each is called through the context of the last render,   *)
(* so it reads the state that render closed over (ctx); the host runtime   *)
(* re-renders the controller at the end of the event that called it.       *)
(***************************************************************************)
\* Variant: the field is not compared.
NewDirection_AnyField(s, field) ==
  IF s.direction = "asc" THEN "desc" ELSE "asc"

\* sort.field === field && sort.direction === 'asc' ? 'desc' : 'asc'
NewDirection(s, field) ==
  IF s.field = field /\ s.direction = "asc" THEN "desc" ELSE "asc"

\* Variant: a call on the field that is sorted descending clears the sort.
handleSort_Cycle(field) ==
  LET newSort == IF ctx.sort.field = field /\ ctx.sort.direction = "desc"
                 THEN EmptySort
                 ELSE [field |-> field, direction |-> NewDirection(ctx.sort, field)]
  IN /\ sort' = newSort
     /\ calls' = Notify("onSort", newSort)
     /\ Rerender(props, {"setSort"}, newSort, filters, selectedRows)
     /\ event' = Ev("setSort", field, Null, 0)
     /\ UNCHANGED <<filters, selectedRows, oddToggled, slotOut, engine>>

handleSort(field) ==
  LET newSort == [field |-> field, direction |-> NewDirection(ctx.sort, field)]
  IN /\ sort' = newSort
     /\ calls' = Notify("onSort", newSort)
     /\ Rerender(props, {"setSort"}, newSort, filters, selectedRows)
     /\ event' = Ev("setSort", field, Null, 0)
     /\ UNCHANGED <<filters, selectedRows, oddToggled, slotOut, engine>>

\* Variant: onFilter is handed the registry of before the call.
handleFilter_StaleArg(field, filterFn) ==
  LET newFilters == NewFilters(ctx.filters, field, filterFn)
  IN /\ filters' = newFilters
     /\ calls' = Notify("onFilter", ctx.filters)
     /\ Rerender(props, {"setFilter"}, sort, newFilters, selectedRows)
     /\ event' = Ev("setFilter", field, filterFn, 0)
     /\ UNCHANGED <<sort, selectedRows, oddToggled, slotOut, engine>>

\* Variant: the rows the new filters remove are also unselected.
handleFilter_Prune(field, filterFn) ==
  LET newFilters == NewFilters(ctx.filters, field, filterFn)
      kept == SelectSeq(selectedRows, LAMBDA row :
                \E i \in DOMAIN sortedFilteredData(engine, props.data, EmptySort, newFilters) :
                  sortedFilteredData(engine, props.data, EmptySort, newFilters)[i] = row)
  IN /\ filters' = newFilters
     /\ selectedRows' = kept
     /\ calls' = Notify("onFilter", newFilters)
     /\ Rerender(props, {"setFilter"}, sort, newFilters, kept)
     /\ event' = Ev("setFilter", field, filterFn, 0)
     /\ oddToggled' = {kept[i] : i \in DOMAIN kept}
     /\ UNCHANGED <<sort, slotOut, engine>>

handleFilter(field, filterFn) ==
  LET newFilters == NewFilters(ctx.filters, field, filterFn)
  IN /\ filters' = newFilters
     /\ calls' = Notify("onFilter", newFilters)
     /\ Rerender(props, {"setFilter"}, sort, newFilters, selectedRows)
     /\ event' = Ev("setFilter", field, filterFn, 0)
     /\ UNCHANGED <<sort, selectedRows, oddToggled, slotOut, engine>>

\* The Set is the sequence of its elements in insertion order.
Has(set, row) == \E i \in DOMAIN set : set[i] = row

\* Variant: a selected row is not removed.
NewSelectedRows_AddOnly(set, row) ==
  IF Has(set, row) THEN set ELSE Append(set, row)

\* new Set(selectedRows), then delete(row) or add(row)
NewSelectedRows(set, row) ==
  IF Has(set, row)
  THEN SelectSeq(set, LAMBDA r : r # row)
  ELSE Append(set, row)

handleRowSelect(row) ==
  LET newSelectedRows == NewSelectedRows(ctx.selectedRows, row)
  IN /\ selectedRows' = newSelectedRows
     /\ calls' = Notify("onRowSelect", newSelectedRows)
     /\ Rerender(props, {"toggle"}, sort, filters, newSelectedRows)
     /\ event' = Ev("toggle", "", Null, row)
     /\ oddToggled' = IF row \in oddToggled THEN oddToggled \ {row}
                      ELSE oddToggled \cup {row}
     /\ UNCHANGED <<sort, filters, slotOut, engine>>

\* A click on a row of the body: DataGrid.Row's onClick, for a row that
\* DataGrid.Body rendered.
Next ==
  \/ \E field \in Fields : handleSort(field)
  \/ \E field \in Fields : \E filterFn \in FilterFns(field) \cup {Null} :
        handleFilter(field, filterFn)
  \/ \E i \in DOMAIN ctx.data : handleRowSelect(ctx.data[i])

Spec == Init /\ [][Next]_vars

(***************************************************************************)
(* The pipeline alone: the same controller, driven by setSort and          *)
(* setFilter only, also over the two longer arrays.                        *)
(***************************************************************************)
InitPipeline == Mounted(DataInputs \cup {SparseData, LongData}, {})

NextPipeline ==
  \/ \E field \in Fields : handleSort(field)
  \/ \E field \in Fields : \E filterFn \in FilterFns(field) \cup {Null} :
        handleFilter(field, filterFn)

SpecPipeline == InitPipeline /\ [][NextPipeline]_vars

(***************************************************************************)
(* One event dispatch that calls the same handler of a render twice (a     *)
(* click that bubbles through two rows, a consumer callback that calls     *)
(* twice): both calls run to completion before the runtime re-renders.     *)
(* The handler was created by the last render, so each call reads the      *)
(* state that render closed over, and each setX(value) replaces what the   *)
(* earlier call of the dispatch queued for the same state cell.            *)
(***************************************************************************)
\* The calls the handlers of a render can be given.
Calls(view) ==
  {Call("setSort", field, Null, 0) : field \in Fields}
  \cup UNION {{Call("setFilter", field, filterFn, 0) :
                 filterFn \in FilterFns(field) \cup {Null}} : field \in Fields}
  \cup {Call("toggle", "", Null, view[i]) : i \in DOMAIN view}

\* handleSort: setSort(newSort), newSort built from the closure's sort.
SortAfter(c, queued) ==
  IF c.op = "setSort"
  THEN [field |-> c.field, direction |-> NewDirection(ctx.sort, c.field)]
  ELSE queued

\* handleFilter: setFilters({ ...filters, [field]: filterFn }), the spread
\* being of the closure's filters.
FiltersAfter(c, queued) ==
  IF c.op = "setFilter" THEN NewFilters(ctx.filters, c.field, c.fn) ELSE queued

\* handleRowSelect: setSelectedRows(newSelectedRows), a copy of the
\* closure's selectedRows with the row toggled.
SelectedAfter(c, queued) ==
  IF c.op = "toggle" THEN NewSelectedRows(ctx.selectedRows, c.row) ELSE queued

\* The hook call a handler call makes, with the value it just built.
HookCall(c) ==
  CASE c.op = "setSort" -> Notify("onSort", SortAfter(c, sort))
    [] c.op = "setFilter" -> Notify("onFilter", FiltersAfter(c, filters))
    [] c.op = "toggle" -> Notify("onRowSelect", SelectedAfter(c, selectedRows))

\* The rows toggled an odd number of times, after the call c.
Toggled(c, rows) ==
  IF c.op # "toggle" THEN rows
  ELSE IF c.row \in rows THEN rows \ {c.row} ELSE rows \cup {c.row}

handleBoth(c1, c2) ==
  LET newSort == SortAfter(c2, SortAfter(c1, sort))
      newFilters == FiltersAfter(c2, FiltersAfter(c1, filters))
      newSelectedRows == SelectedAfter(c2, SelectedAfter(c1, selectedRows))
      ops == {c1.op, c2.op}
  IN /\ sort' = newSort
     /\ filters' = newFilters
     /\ selectedRows' = newSelectedRows
     /\ calls' = HookCall(c1) \o HookCall(c2)
     /\ Rerender(props, ops, newSort, newFilters, newSelectedRows)
     /\ event' = [Ev(c2.op, c2.field, c2.fn, c2.row) EXCEPT !.first = c1]
     /\ oddToggled' = Toggled(c2, Toggled(c1, oddToggled))
     /\ UNCHANGED <<slotOut, engine>>

NextBatched ==
  \/ \E c1 \in Calls(ctx.data) : \E c2 \in Calls(ctx.data) :
        c1.op = c2.op /\ handleBoth(c1, c2)

\* Mounted with every hook and no defaultSort, over the arrays of full
\* length.
FullArrays == {data \in DataInputs : Len(data) = MaxRows}

\* The arrays of full length whose rows differ.
DistinctArrays ==
  {data \in FullArrays : \A i, j \in DOMAIN data : data[i] = data[j] => i = j}

InitBatched ==
  /\ Mounted(FullArrays, {})
  /\ props.defaultSort = << >>
  /\ props.hooks = Hooks

SpecBatched == InitBatched /\ [][NextBatched]_vars

(***************************************************************************)
(* DataGrid.Column: a click on the label and a text change in the input,   *)
(* which is rendered only when a filter factory was given.  The event,     *)
(* the handler call it makes if any, and the re-render after it.           *)
(***************************************************************************)
\* Variant: the label calls onSort whether or not the column is sortable.
OnClick_Always(col) == Call("setSort", col.field, Null, 0)

\* onClick={sortable ? () => onSort(field) : undefined}
OnClick(col) ==
  IF col.sortable THEN Call("setSort", col.field, Null, 0) ELSE NoCall

\* handleFilterChange: if (filter) onFilter(field, filter(e.target.value));
\* filterFn is the predicate the factory makes of the text.
handleFilterChange(col, filterFn) ==
  IF col.filter THEN Call("setFilter", col.field, filterFn, 0) ELSE NoCall

\* The event kind on the column col, making the call c or none.
columnEvent(kind, col, c) ==
  IF c.op = "none"
  THEN /\ event' = [Ev(kind, col.field, Null, 0) EXCEPT !.col = col]
       /\ calls' = << >>
       /\ UNCHANGED <<props, sort, filters, selectedRows, ctx, oddToggled, slotOut, engine>>
  ELSE LET newSort == SortAfter(c, sort)
           newFilters == FiltersAfter(c, filters)
       IN /\ sort' = newSort
          /\ filters' = newFilters
          /\ calls' = HookCall(c)
          /\ Rerender(props, {c.op}, newSort, newFilters, selectedRows)
          /\ event' = [Ev(c.op, c.field, c.fn, c.row) EXCEPT !.col = col]
          /\ UNCHANGED <<selectedRows, oddToggled, slotOut, engine>>

NextColumns ==
  \/ \E col \in ColumnInputs : columnEvent("click", col, OnClick(col))
  \/ \E col \in ColumnInputs : \E filterFn \in FilterFns(col.field) :
        col.filter /\ columnEvent("change", col, handleFilterChange(col, filterFn))
  \/ \E i \in DOMAIN ctx.data : handleRowSelect(ctx.data[i])

\* Mounted with every hook and no defaultSort, over the arrays of full
\* length whose rows differ.
InitColumns ==
  /\ Mounted(DistinctArrays, {})
  /\ props.defaultSort = << >>
  /\ props.hooks = Hooks

SpecColumns == InitColumns /\ [][NextColumns]_vars

(***************************************************************************)
(* The parent renders <DataGrid> again: the function runs with the new     *)
(* props, the three state cells keep their values (defaultSort is read by  *)
(* the first render only), and the memo body runs again if data is another *)
(* array than the one of the last render, whatever its rows.               *)
(***************************************************************************)
renderAgain(newProps, newArray) ==
  LET ops == IF newArray THEN {"data"} ELSE {}
  IN /\ ~newArray => newProps.data = props.data
     /\ Sortable(newProps.data)
     /\ Rerender(newProps, ops, sort, filters, selectedRows)
     /\ calls' = << >>
     /\ event' = Ev(IF newArray THEN "data" ELSE "render", "", Null, 0)
     /\ UNCHANGED <<sort, filters, selectedRows, oddToggled, slotOut, engine>>

\* The props of a later render: one of these arrays, the hooks as they
\* were.
LaterProps ==
  [data : DistinctArrays, defaultSort : {props.defaultSort}, hooks : {props.hooks}]

InitParent ==
  /\ Mounted(DistinctArrays, DistinctArrays)
  /\ props.defaultSort = << >>
  /\ props.hooks = Hooks

NextParent ==
  \/ Next
  \/ \E newProps \in LaterProps : \E newArray \in BOOLEAN :
        renderAgain(newProps, newArray)

SpecParent == InitParent /\ [][NextParent]_vars

(***************************************************************************)
(* The slot components, each rendered on its own: under the Provider of    *)
(* the mounted DataGrid (provided) or outside any DataGrid.  row is the    *)
(* row prop (0: not passed, undefined); children says that the component   *)
(* was given a function that returns an element as its children.           *)
(***************************************************************************)
Slots == {"Header", "Column", "Body", "Row", "Cell", "Footer", "Pagination"}

\* The components that call useContext(DataGridContext) and destructure it.
ReadsContext(slot) == slot \in {"Column", "Body", "Row"}

\* useContext(DataGridContext): createContext() has no default value, so
\* outside a Provider the value is undefined (<< >>).
UseContext(provided) == IF provided THEN <<ctx>> ELSE << >>

\* What rendering the component does: a destructuring of undefined, a
\* property read of undefined and a call of what is not a function all
\* throw a TypeError.  Body calls children(row) for each row of the view.
RenderOutcome(slot, provided, row, children) ==
  IF ReadsContext(slot) /\ UseContext(provided) = << >> THEN "TypeError"
  ELSE IF slot = "Cell" /\ row = 0 THEN "TypeError"
  ELSE IF slot = "Body" /\ ~children /\ ctx.data # << >> THEN "TypeError"
  ELSE "rendered"

RenderSlot(slot, provided, row, children) ==
  /\ slotOut' = [slot |-> slot, provided |-> provided, row |-> row,
                 children |-> children,
                 outcome |-> RenderOutcome(slot, provided, row, children)]
  /\ UNCHANGED <<props, sort, filters, selectedRows, ctx, calls, event,
                 oddToggled, engine>>

NextSlots ==
  \E slot \in Slots : \E provided \in BOOLEAN :
    \E row \in (IF slot \in {"Row", "Cell"} THEN Pool \cup {0} ELSE {0}) :
      \E children \in (IF slot = "Body" THEN BOOLEAN ELSE {FALSE}) :
        RenderSlot(slot, provided, row, children)

SpecSlots == Init /\ [][NextSlots]_vars

(***************************************************************************)
(* Vocabulary of the properties.                                           *)
(***************************************************************************)
DerivedView == ctx.data
Elems(seq) == {seq[i] : i \in DOMAIN seq}
Count(seq, row) == Cardinality({i \in DOMAIN seq : seq[i] = row})

\* row satisfies every non-null predicate of the registry.
Passes(registry, row) ==
  \A i \in DOMAIN registry :
    registry[i].fn # Null => Holds(registry[i].fn, row)

\* The rows of sourceRows that pass, in sourceRows order.
Filtered == SelectSeq(props.data, LAMBDA row : Passes(filters, row))

\* The field's values of these rows are mutually comparable: any two of
\* them are ordered by < and > or are equal.
Comparable(rows, field) ==
  \A i, j \in DOMAIN rows :
    LET x == Get(rows[i], field)
        y == Get(rows[j], field)
    IN Gt(x, y) \/ Lt(x, y) \/ (x = y /\ x # Undef)

\* x <= y and x >= y of JS.
Le(x, y) == Lt(x, y) \/ (x = y /\ x # Undef)
Ge(x, y) == Gt(x, y) \/ (x = y /\ x # Undef)

\* The rows of seq whose field has value v, in their order in seq.
WithValue(seq, field, v) == SelectSeq(seq, LAMBDA row : Get(row, field) = v)

\* Stability: rows with equal sort-field values keep their filtered order.
KeepsTies(view, field) ==
  \A i \in DOMAIN view :
    LET v == Get(view[i], field)
    IN WithValue(view, field, v) = WithValue(Filtered, field, v)

(***************************************************************************)
(* C1.  DerivedView holds, as a multiset, exactly the rows of sourceRows   *)
(* that pass every non-null predicate of the registry: each row occurs in  *)
(* it as often as in sourceRows if it passes, and not at all otherwise,    *)
(* whatever the sort is.                                                   *)
(***************************************************************************)
C1_ExactlyThePassingRows ==
  \A row \in Pool :
    Count(DerivedView, row) =
      IF Passes(filters, row) THEN Count(props.data, row) ELSE 0

\* A sorted view under two predicates, with a row removed, a row kept and
\* a row selected.
C1_Witness ==
  /\ Truthy(sort.field)
  /\ selectedRows # << >>
  /\ \E row \in Elems(props.data) : ~Passes(filters, row)
  /\ \E row \in Elems(props.data) : Passes(filters, row)
  /\ \E i, j \in DOMAIN filters : i # j /\ filters[i].fn # Null /\ filters[j].fn # Null

(***************************************************************************)
(* C2.  With a non-empty sort field whose values in the view are mutually  *)
(* comparable, adjacent rows of DerivedView are in order: <= for 'asc',    *)
(* >= for 'desc'.                                                          *)
(***************************************************************************)
C2_OrderedByField ==
  (Truthy(sort.field) /\ Comparable(DerivedView, sort.field)) =>
    \A i \in 1..(Len(DerivedView) - 1) :
      LET x == Get(DerivedView[i], sort.field)
          y == Get(DerivedView[i + 1], sort.field)
      IN /\ sort.direction = "asc" => Le(x, y)
         /\ sort.direction = "desc" => Ge(x, y)

\* A descending view of comparable values that the sort had to reorder.
C2_Witness ==
  /\ event.op = "setSort"
  /\ sort.direction = "desc"
  /\ Comparable(DerivedView, sort.field)
  /\ DerivedView # Filtered
  /\ \E i \in DOMAIN DerivedView :
       Gt(Get(DerivedView[1], sort.field), Get(DerivedView[i], sort.field))

(***************************************************************************)
(* C3.  As claimed: in both directions rows with equal sort-field values   *)
(* keep their filtered order, and with no sort field DerivedView is the    *)
(* filtered rows in sourceRows order.                                      *)
(***************************************************************************)
C3_Original ==
  IF Truthy(sort.field) THEN KeepsTies(DerivedView, sort.field)
  ELSE DerivedView = Filtered

\* The engine's sort is a stable one for these rows.
StableSort(eng, rows) == eng = "timsort" \/ Len(rows) <= 10

(***************************************************************************)
(* C3, amended.  The same, for sort-field values that are mutually         *)
(* comparable among the filtered rows and an engine whose sort is stable   *)
(* for that many rows.                                                     *)
(***************************************************************************)
C3_StableWhenComparable ==
  IF Truthy(sort.field)
  THEN (Comparable(Filtered, sort.field) /\ StableSort(engine, Filtered))
         => KeepsTies(DerivedView, sort.field)
  ELSE DerivedView = Filtered

\* A descending, reordered view in which two different rows tie.
C3_Witness ==
  /\ event.op = "setSort"
  /\ sort.direction = "desc"
  /\ Comparable(Filtered, sort.field)
  /\ DerivedView # Filtered
  /\ \E i, j \in DOMAIN DerivedView :
       /\ i < j
       /\ DerivedView[i] # DerivedView[j]
       /\ Get(DerivedView[i], sort.field) = Get(DerivedView[j], sort.field)

(***************************************************************************)
(* C4.  Every setSort(field) step installs {field, 'desc'} exactly when    *)
(* the sort was {field, 'asc'}, and {field, 'asc'} otherwise; a call that  *)
(* follows a setSort on the same field flips the direction between 'asc'   *)
(* and 'desc'.                                                             *)
(***************************************************************************)
C4_SetSortFlips ==
  [][event'.op = "setSort" =>
       /\ sort'.field = event'.field
       /\ sort'.direction =
            IF sort = [field |-> event'.field, direction |-> "asc"]
            THEN "desc" ELSE "asc"
       /\ event'.follows =>
            /\ {sort.direction, sort'.direction} = {"asc", "desc"}
            /\ sort.field = sort'.field]_vars

\* The second of two consecutive setSort calls on one field, now descending.
C4_Witness ==
  /\ event.op = "setSort"
  /\ event.follows
  /\ sort = [field |-> event.field, direction |-> "desc"]

(***************************************************************************)
(* C5.  In every state the rows of SelectionSet are the rows toggled an    *)
(* odd number of times since mount, each held once; and after any toggle   *)
(* step, toggling the same row again gives back the contents SelectionSet  *)
(* had before the step.                                                    *)
(***************************************************************************)
C5_ToggleIsInvolution ==
  [][/\ Elems(selectedRows') = oddToggled'
     /\ \A row \in Pool : Count(selectedRows', row) <= 1
     /\ event'.op = "toggle" =>
          Elems(NewSelectedRows(ctx'.selectedRows, event'.row))
            = Elems(selectedRows)]_vars

\* A row toggled twice in succession, unselected again, beside a selected row.
C5_Witness ==
  /\ event.op = "toggle"
  /\ event.follows
  /\ ~Has(selectedRows, event.row)
  /\ selectedRows # << >>

\* The view that a setFilter(field, null) called now would produce.
ViewAfterClearing(s, registry, field) ==
  sortedFilteredData(engine, props.data, s, NewFilters(registry, field, Null))

\* The registry without an entry for field.
Without(registry, field) ==
  SelectSeq(registry, LAMBDA entry : entry.field # field)

(***************************************************************************)
(* C6.  As claimed: after any setFilter(field, p) step, setFilter(field,   *)
(* null) gives the DerivedView of before the step.                         *)
(***************************************************************************)
C6_Original ==
  [][(event'.op = "setFilter" /\ event'.fn # Null) =>
       ViewAfterClearing(ctx'.sort, ctx'.filters, event'.field)
         = DerivedView]_vars

(***************************************************************************)
(* C6, amended.  After any setFilter(field, p) step, setFilter(field,      *)
(* null) gives the view of the registry of before the step with no         *)
(* predicate on field (the other fields' predicates and the sort apply):   *)
(* the DerivedView of before the step whenever field had no non-null       *)
(* predicate then.                                                         *)
(***************************************************************************)
C6_ClearLiftsTheField ==
  [][(event'.op = "setFilter" /\ event'.fn # Null) =>
       LET cleared == ViewAfterClearing(ctx'.sort, ctx'.filters, event'.field)
           others == Without(filters, event'.field)
           kept == SelectSeq(props.data, LAMBDA row : Passes(others, row))
       IN /\ cleared = IF Truthy(sort.field) THEN ArraySort(engine, kept, sort) ELSE kept
          /\ (\A i \in DOMAIN filters :
                filters[i].field = event'.field => filters[i].fn = Null)
               => cleared = DerivedView]_vars

\* A predicate set and then cleared, under a sort and the other field's
\* predicate: the view again holds a row the predicate had removed.
C6_Witness ==
  /\ event.op = "setFilter"
  /\ event.fn = Null
  /\ event.follows
  /\ Truthy(sort.field)
  /\ \E i \in DOMAIN filters : filters[i].field # event.field /\ filters[i].fn # Null
  /\ \E i \in DOMAIN DerivedView : \E p \in FilterFns(event.field) :
       ~Holds(p, DerivedView[i])

\* What a handler call leaves in calls when it hands arg to its hook.
Notified(hook, arg) ==
  IF hook \in props.hooks THEN calls = <<[hook |-> hook, arg |-> arg]>>
  ELSE calls = << >>

(***************************************************************************)
(* C7.  After every setSort, setFilter or toggleRowSelection call the only *)
(* hook invoked is the call's own, once, with the state the call           *)
(* installed (the sort, the registry, the elements of the selection), if   *)
(* it is configured; configured or not, the call's mutation is installed.  *)
(***************************************************************************)
C7_OwnHookOnceWithNewState ==
  /\ event.op = "mount" => calls = << >>
  /\ event.op = "setSort" =>
       /\ Notified("onSort", sort)
       /\ sort.field = event.field
  /\ event.op = "setFilter" =>
       /\ Notified("onFilter", filters)
       /\ \E i \in DOMAIN filters :
            filters[i] = [field |-> event.field, fn |-> event.fn]
  /\ event.op = "toggle" =>
       /\ Notified("onRowSelect", selectedRows)
       /\ Has(selectedRows, event.row) <=> event.row \in oddToggled

\* onFilter called with a registry of two entries.
C7_Witness ==
  /\ event.op = "setFilter"
  /\ Len(filters) = 2
  /\ calls = <<[hook |-> "onFilter", arg |-> filters]>>

(***************************************************************************)
(* C8.  A setSort or setFilter step leaves SelectionSet as it was, in the  *)
(* controller and in the broadcast context.                                *)
(***************************************************************************)
C8_SelectionUntouched ==
  [][event'.op \in {"setSort", "setFilter"} =>
       /\ selectedRows' = selectedRows
       /\ ctx'.selectedRows = ctx.selectedRows]_vars

\* A selected row that the filter just set keeps out of the view.
C8_Witness ==
  /\ event.op = "setFilter"
  /\ \E i \in DOMAIN selectedRows :
       /\ Has(props.data, selectedRows[i])
       /\ ~Has(DerivedView, selectedRows[i])

(***************************************************************************)
(* C9.  On mount the sort is defaultSort (the empty sort when none is      *)
(* given), the registry and the selection are empty, and with no           *)
(* defaultSort DerivedView is sourceRows in its order.                     *)
(***************************************************************************)
C9_MountedState ==
  event.op = "mount" =>
    /\ props.defaultSort # << >> => sort = props.defaultSort[1]
    /\ props.defaultSort = << >> => sort = EmptySort /\ DerivedView = props.data
    /\ filters = << >>
    /\ selectedRows = << >>
    /\ ctx.sort = sort /\ ctx.filters = filters /\ ctx.selectedRows = selectedRows

\* Mounted with a defaultSort that reorders sourceRows.
C9_Witness ==
  /\ event.op = "mount"
  /\ props.defaultSort # << >>
  /\ sort.field = "name"
  /\ DerivedView # props.data

(***************************************************************************)
(* C10: every slot (Header, Column, Body, Row, Cell, Footer, Pagination)   *)
(* rendered outside a DataGrid fails at once: the render throws and        *)
(* returns no markup.                                                      *)
(***************************************************************************)
C10_Original ==
  (slotOut.slot # "" /\ ~slotOut.provided) => slotOut.outcome = "TypeError"

(***************************************************************************)
(* C11                                                                     *)
(***************************************************************************)
HasEntry(registry, field, fn) ==
  \E i \in DOMAIN registry : registry[i] = [field |-> field, fn |-> fn]

\* C11: no mutation is lost when two calls made through the handlers of the
\* same render both run before the next render: after the re-render the
\* registry holds the predicates of both setFilter calls (on distinct
\* fields), and both toggled rows have changed membership in the selection.
C11_Original ==
  [][event'.first.op # "none" =>
       /\ (event'.op = "setFilter" /\ event'.first.field # event'.field) =>
             /\ HasEntry(filters', event'.first.field, event'.first.fn)
             /\ HasEntry(filters', event'.field, event'.fn)
       /\ event'.op = "toggle" =>
             Elems(selectedRows')
               = Toggled(Call("toggle", "", Null, event'.row),
                         Toggled(event'.first, Elems(selectedRows)))]_vars

(***************************************************************************)
(* C12                                                                     *)
(***************************************************************************)
ActivePredicates(registry) ==
  {i \in DOMAIN registry : registry[i].fn # Null}

\* C12: the derived view is recomputed only when the rows, the registry or
\* the sort spec changed: a render that recomputes it follows a setSort, a
\* setFilter or the parent passing another data array (and then the view is
\* the pipeline's on the new array); a render with the same array hands the
\* old view back; and a toggle leaves the view (the same sequence, which
\* the memo hands back without running its body), the sort spec and the
\* registry as they were.
C12_ToggleKeepsTheView ==
  [][/\ ctx'.recomputed => event'.op \in {"setSort", "setFilter", "data"}
     /\ event'.op = "data" =>
          /\ ctx'.recomputed
          /\ ctx'.data = sortedFilteredData(engine, props'.data, sort, filters)
     /\ event'.op = "render" => ~ctx'.recomputed /\ ctx'.data = ctx.data
     /\ event'.op = "toggle" =>
          /\ ~ctx'.recomputed
          /\ ctx'.data = ctx.data
          /\ sort' = sort /\ ctx'.sort = ctx.sort
          /\ filters' = filters /\ ctx'.filters = ctx.filters
          /\ props'.data = props.data]_vars

\* A row was toggled in a grid that is sorted and filtered: the view is a
\* reordered part of the rows, and the render did not recompute it.
C12_Witness ==
  /\ event.op = "toggle"
  /\ ~ctx.recomputed
  /\ selectedRows # << >>
  /\ Truthy(sort.field)
  /\ ActivePredicates(filters) # {}
  /\ DerivedView # << >>
  /\ Len(DerivedView) < Len(props.data)

(***************************************************************************)
(* C13                                                                     *)
(***************************************************************************)
\* C13: the caller's rows are never modified: whatever setSort, setFilter or
\* toggle does (sorting with no active filter included), and when the
\* parent renders the grid again with the same array, the caller's array
\* holds, once the memo body has filtered and sorted in place, the same
\* elements in the same order as before the step, hence as when it was
\* supplied.
C13_CallerRowsUntouched ==
  [][event'.op # "data" => props'.data = props.data]_vars

\* setSort was called with no active predicate, and the view is in another
\* order than the caller's rows.
C13_Witness ==
  /\ event.op = "setSort"
  /\ ActivePredicates(filters) = {}
  /\ Elems(DerivedView) = Elems(props.data)
  /\ DerivedView # props.data

(***************************************************************************)
(* C14                                                                     *)
(***************************************************************************)
\* The view once setFilter(field, fn) has been called on the registry.
ViewWith(s, registry, field, fn) ==
  sortedFilteredData(engine, props.data, s, NewFilters(registry, field, fn))

\* C14: filters combine as a conjunction that does not depend on the order
\* of the calls: when setFilter(f1, p1) has been called, calling
\* setFilter(f2, p2) on another field next gives the same view (same rows,
\* same order) as the two calls made in the other order from the state
\* before.
C14_FilterOrderIrrelevant ==
  [][(event'.op = "setFilter" /\ event'.fn # Null) =>
       \A f2 \in Fields \ {event'.field} : \A p2 \in FilterFns(f2) :
         ViewWith(sort', filters', f2, p2)
           = ViewWith(sort, NewFilters(filters, f2, p2), event'.field, event'.fn)]_vars

\* A second predicate was set after the other field's: the registry lists
\* age before name, a row passes both, a row passes the one on name only
\* and a row fails the one on name.
C14_Witness ==
  /\ event.op = "setFilter"
  /\ event.fn # Null
  /\ Len(filters) = 2
  /\ filters[1].field = "age" /\ filters[1].fn # Null
  /\ filters[2].field = "name" /\ filters[2].fn # Null
  /\ DerivedView # << >>
  /\ \E i \in DOMAIN props.data :
       /\ Holds(filters[2].fn, props.data[i])
       /\ ~Holds(filters[1].fn, props.data[i])
  /\ \E i \in DOMAIN props.data : ~Holds(filters[2].fn, props.data[i])

(***************************************************************************)
(* C15                                                                     *)
(***************************************************************************)
UniqueKeys(registry) ==
  \A i, j \in DOMAIN registry : registry[i].field = registry[j].field => i = j

\* C15, as claimed: the registry holds at most one predicate per field, and
\* after setFilter(field, null) neither the controller's registry nor the
\* one handed to onFilter has an entry for field.
C15_Original ==
  /\ UniqueKeys(filters)
  /\ (event.op = "setFilter" /\ event.fn = Null) =>
       /\ ~HasKey(filters, event.field)
       /\ Notified("onFilter", Without(filters, event.field))

\* C15: the registry holds at most one entry per field; after
\* setFilter(field, null) the field's entry is still there, with null in
\* place of the predicate, in the controller's registry and in the one
\* handed to onFilter, and the view is that of the registry without the
\* entry.
C15_ClearKeepsTheKey ==
  /\ UniqueKeys(filters)
  /\ (event.op = "setFilter" /\ event.fn = Null) =>
       /\ HasEntry(filters, event.field, Null)
       /\ Notified("onFilter", filters)
       /\ DerivedView
            = sortedFilteredData(engine, props.data, sort, Without(filters, event.field))

\* A predicate was cleared while the other field's stays: the registry has
\* both keys, the hook was called, and the view is narrowed by the other
\* predicate only.
C15_Witness ==
  /\ event.op = "setFilter"
  /\ event.fn = Null
  /\ Len(filters) = 2
  /\ ActivePredicates(filters) # {}
  /\ calls # << >>
  /\ Len(DerivedView) < Len(props.data)
  /\ \E i \in DOMAIN DerivedView : \E p \in FilterFns(event.field) :
       ~Holds(p, DerivedView[i])

(***************************************************************************)
(* C16                                                                     *)
(***************************************************************************)
\* C16: a click on a column label changes the sort spec only if the column
\* is sortable, and then does exactly setSort(field) for the column's
\* field; a click on a column that is not sortable leaves the sort spec, the
\* registry, the selection and the view unchanged and calls no hook; and the
\* registry changes only through the input of a column that has a filter
\* factory, so a text change on a column without one leaves it unchanged.
C16_ColumnEventsRespectTheirProps ==
  [][LET col == event'.col
     IN /\ sort' # sort => col.sortable /\ event'.op = "setSort"
        /\ event'.op = "setSort" =>
             /\ col.sortable
             /\ sort' = [field |-> col.field,
                         direction |-> IF sort.field = col.field /\ sort.direction = "asc"
                                       THEN "desc" ELSE "asc"]
             /\ filters' = filters
             /\ selectedRows' = selectedRows
             /\ ctx'.data = sortedFilteredData(engine, props.data, sort', filters)
             /\ calls' = IF "onSort" \in props.hooks
                         THEN <<[hook |-> "onSort", arg |-> sort']>> ELSE << >>
        /\ event'.op = "click" =>
             /\ ~col.sortable
             /\ sort' = sort /\ filters' = filters /\ selectedRows' = selectedRows
             /\ ctx' = ctx
             /\ calls' = << >>
        /\ filters' # filters => col.filter /\ event'.op = "setFilter"
        /\ event'.op = "change" => filters' = filters]_vars

\* The label of a column that is not sortable was clicked in a grid that is
\* sorted, filtered and has a selected row.
C16_Witness ==
  /\ event.op = "click"
  /\ ~event.col.sortable
  /\ event.col.field # sort.field
  /\ Truthy(sort.field)
  /\ ActivePredicates(filters) # {}
  /\ selectedRows # << >>
  /\ DerivedView # << >>
  /\ DerivedView # props.data

(***************************************************************************)
(* C17                                                                     *)
(***************************************************************************)
Sorted(s) == Truthy(s.field) /\ s.direction \in {"asc", "desc"}

\* C17: once setSort has been called with a field, no setSort, setFilter or
\* toggle on the fields and rows of the grid returns it to the unsorted
\* state: a setSort leaves a sort spec with a field and a direction of
\* 'asc' or 'desc', and every later call keeps it so.
C17_NeverUnsortedAgain ==
  [][/\ event'.op = "setSort" => Sorted(sort') /\ Sorted(ctx'.sort)
     /\ Sorted(sort) => Sorted(sort') /\ Sorted(ctx'.sort)]_vars

\* The grid was mounted unsorted, was sorted by a setSort, and a later
\* setFilter finds it still sorted.
C17_Witness ==
  /\ props.defaultSort = << >>
  /\ event.op = "setFilter"
  /\ Sorted(sort)
  /\ selectedRows # << >>
  /\ DerivedView # << >>

(***************************************************************************)
(* C18                                                                     *)
(***************************************************************************)
\* The sort spec names a field and has a direction other than 'asc' and
\* 'desc': the state a defaultSort without a usable direction leaves.
NoUsableDirection(s) == Truthy(s.field) /\ s.direction \notin {"asc", "desc"}

\* C18: the pipeline treats every direction other than 'asc' as descending.
\* While the sort spec is that of a defaultSort that names a field without a
\* usable direction, the view is the one 'desc' gives (adjacent rows in >=
\* order when the field's values are comparable), as it is for every such
\* direction and field; and the first setSort on that field makes the
\* direction 'asc' and the view the ascending one.
C18_NotAscMeansDescending ==
  [][/\ NoUsableDirection(sort) =>
          /\ DerivedView
               = sortedFilteredData(engine, props.data,
                                    [field |-> sort.field, direction |-> "desc"], filters)
          /\ Comparable(DerivedView, sort.field) =>
               \A i \in 1..(Len(DerivedView) - 1) :
                 Ge(Get(DerivedView[i], sort.field), Get(DerivedView[i + 1], sort.field))
     /\ \A d \in OtherDirections : \A field \in Fields :
          sortedFilteredData(engine, props.data, [field |-> field, direction |-> d], filters)
            = sortedFilteredData(engine, props.data, [field |-> field, direction |-> "desc"], filters)
     /\ (NoUsableDirection(sort) /\ event'.op = "setSort" /\ event'.field = sort.field) =>
          /\ sort' = [field |-> sort.field, direction |-> "asc"]
          /\ ctx'.data = sortedFilteredData(engine, props.data, sort', filters)]_vars

\* Mounted with a defaultSort that names age and no direction, over rows
\* whose ages are comparable and rise: the view is the rows in falling order.
C18_Witness ==
  /\ event.op = "mount"
  /\ props.defaultSort # << >>
  /\ NoUsableDirection(sort)
  /\ Comparable(props.data, sort.field)
  /\ Len(DerivedView) >= 2
  /\ DerivedView # props.data
  /\ Gt(Get(DerivedView[1], sort.field), Get(DerivedView[Len(DerivedView)], sort.field))

====
